---------------------------- MODULE Spec2Model ----------------------------
(*************************************************************************)
(* A model of egs/heroico/asr/simple_v1/ctc_train.py: the batch          *)
(* statistics (get_tot_objf_and_num_frames), the per-batch objective     *)
(* (get_objf), the validation pass (get_validation_objf), the epoch loop *)
(* (train_one_epoch) and the orchestration with its checkpoints (main).  *)
(*                                                                       *)
(* Floating point values are modelled exactly: a score is an integer or  *)
(* -infinity, an average is a rational in lowest terms or +infinity.     *)
(* The neural network and the lattice library are the environment: they  *)
(* supply the total score of every supervision segment.                  *)
(*************************************************************************)
EXTENDS Integers, Sequences, FiniteSets, Bags, TLC

VARIABLES
    pc,                      \* position of main / train_one_epoch
    built,                   \* objects main has constructed so far
    logged,                  \* the error / final messages logged so far
    exit_arg,                \* argument of sys.exit, "none" while running
    train_dl, valid_dl,      \* the two dataloaders
    epoch,                   \* loop variable of main
    quality,                 \* environment: the network's loss level this epoch
    batch_idx,               \* enumerate index in train_one_epoch
    total_objf, total_frames, total_all_frames,
    valid_average_objf,
    batch_log,               \* history: bag of the get_objf results of this epoch
    valid_idx,               \* enumerate index in get_validation_objf
    total_valid_objf, total_valid_frames, total_valid_all_frames,
    valid_log,               \* history: bag of the get_objf results of this pass
    valid_after,             \* history: batch_idx values after which a pass ran
    gbi_local,               \* global_batch_idx_train inside train_one_epoch
    global_batch_idx_train,  \* global_batch_idx_train of main
    objf, valid_objf,        \* what train_one_epoch returned to main
    best_objf, best_valid_objf, best_epoch,
    model_mode,              \* "none", "train" or "eval"
    last_call,               \* the last get_objf call: inputs, outputs, effects
    files,                   \* file name -> content last written
    writes,                  \* file names in the order they were written
    tb                       \* tensorboard tag -> number of scalars, last step

vars == <<pc, built, logged, exit_arg, train_dl, valid_dl, epoch, quality,
          batch_idx, total_objf, total_frames, total_all_frames,
          valid_average_objf, batch_log, valid_idx, total_valid_objf,
          total_valid_frames, total_valid_all_frames, valid_log, valid_after,
          gbi_local, global_batch_idx_train, objf, valid_objf, best_objf,
          best_valid_objf, best_epoch, model_mode, last_call, files, writes,
          tb>>

-----------------------------------------------------------------------------
(* Program constants *)

start_epoch == 0
num_epochs == 8
subsampling_factor == 4
LogInterval == 10
ValidInterval == 200

(* Bounds of the model *)

\* longest batch (number of supervision segments) given to get_objf alone
MaxSegs == 3
\* longest training dataloader whose batches are all drawn freely
MaxSmall == 2
\* most validation passes one epoch of the long dataloaders runs
MaxPasses == 2

-----------------------------------------------------------------------------
(* Numbers *)

Abs(x) == IF x < 0 THEN -x ELSE x

RECURSIVE GCD(_, _)
GCD(a, b) == IF b = 0 THEN a ELSE GCD(b, a % b)

\* a total score: an integer, or -infinity
NegInf == [neg_inf |-> TRUE, v |-> 0]
Fin(x) == [neg_inf |-> FALSE, v |-> x]

\* float('inf') / np.inf
PosInf == [inf |-> TRUE, num |-> 1, den |-> 0]

\* x / y for y > 0, in lowest terms
Div(x, y) ==
    LET g == GCD(Abs(x), y)
    IN  [inf |-> FALSE, num |-> x \div g, den |-> y \div g]

\* a < b on averages
Less(a, b) ==
    IF a.inf THEN FALSE
    ELSE IF b.inf THEN TRUE
    ELSE a.num * b.den < b.num * a.den

RECURSIVE SumSeq(_)
SumSeq(s) == IF s = <<>> THEN 0 ELSE Head(s) + SumSeq(Tail(s))

\* '{}'.format(n) for n >= 0
Digit == <<"0", "1", "2", "3", "4", "5", "6", "7", "8", "9">>

RECURSIVE Format(_)
Format(n) == IF n < 10 THEN Digit[n + 1]
             ELSE Format(n \div 10) \o Digit[(n % 10) + 1]

-----------------------------------------------------------------------------
(* get_tot_objf_and_num_frames *)

\* torch.nonzero(mask).squeeze(1): the indexes i with mask[i], increasing
nonzero(mask) ==
    SelectSeq([i \in 1..Len(mask) |-> i], LAMBDA i : mask[i])

mask_all(tot_scores) == [i \in 1..Len(tot_scores) |-> TRUE]

mask_ne_neg_inf(tot_scores) ==
    [i \in 1..Len(tot_scores) |-> tot_scores[i] # NegInf]

get_tot_objf_and_num_frames(tot_scores, frames_per_seq) ==
    LET mask == mask_ne_neg_inf(tot_scores)
        finite_indexes == nonzero(mask)
        ok_frames == SumSeq([j \in 1..Len(finite_indexes) |->
                                frames_per_seq[finite_indexes[j]]])
        all_frames == SumSeq(frames_per_seq)
        tot_score == SumSeq([j \in 1..Len(finite_indexes) |->
                                tot_scores[finite_indexes[j]].v])
    IN  <<tot_score, ok_frames, all_frames>>

-----------------------------------------------------------------------------
(* get_objf *)

Perms(n) == {p \in [1..n -> 1..n] : \A i, j \in 1..n : p[i] = p[j] => i = j}

\* torch.stack((sequence_idx, start_frame // f, num_frames // f), 1); the
\* frame counts of a batch are far below 2^31, where .to(torch.int32) changes
\* nothing
stack_segments(supervisions) ==
    [i \in 1..Len(supervisions.num_frames) |->
        <<supervisions.sequence_idx[i],
          supervisions.start_frame[i] \div subsampling_factor,
          supervisions.num_frames[i] \div subsampling_factor>>]

\* torch.argsort(keys, descending=True): any index order that sorts keys;
\* the order of equal keys is not specified
argsort_descending(keys) ==
    {p \in Perms(Len(keys)) :
        \A i, j \in 1..Len(keys) : i < j => keys[p[i]] >= keys[p[j]]}

texts_identity(texts, indices) == texts

texts_by_indices(texts, indices) ==
    [i \in 1..Len(indices) |-> texts[indices[i]]]

optimizer_ops(training) ==
    IF training THEN <<"zero_grad", "backward", "clip_grad_value_", "step">>
    ELSE <<>>

\* One call of get_objf.  indices is the result of the argsort, tot_scores the
\* scores the forward-backward pass returns for the sorted segments; mode is
\* the model's mode during the call.
get_objf(batch, indices, tot_scores, training, mode) ==
    LET stacked == stack_segments(batch)
        supervision_segments ==
            [i \in 1..Len(indices) |-> stacked[indices[i]]]
        texts == texts_by_indices(batch.text, indices)
        frames_per_seq ==
            [i \in 1..Len(indices) |-> supervision_segments[i][3]]
        r == get_tot_objf_and_num_frames(tot_scores, frames_per_seq)
    IN  [kind |-> IF training THEN "train" ELSE "valid",
         mode |-> mode,
         no_grad |-> ~training,
         batch |-> batch,
         indices |-> indices,
         tot_scores |-> tot_scores,
         supervision_segments |-> supervision_segments,
         texts |-> texts,
         tot |-> r,
         ops |-> optimizer_ops(training),
         ans |-> <<-r[1], r[2], r[3]>>]

\* the argsort results get_objf may see for a batch
Indices(batch) ==
    argsort_descending([i \in 1..Len(batch.num_frames) |->
                           stack_segments(batch)[i][3]])

NoCall ==
    [kind |-> "none", mode |-> "none", no_grad |-> FALSE,
     batch |-> [sequence_idx |-> <<>>, start_frame |-> <<>>,
                num_frames |-> <<>>, text |-> <<>>, align |-> <<>>],
     indices |-> <<>>, tot_scores |-> <<>>, supervision_segments |-> <<>>,
     texts |-> <<>>, tot |-> <<0, 0, 0>>, ops |-> <<>>, ans |-> <<0, 0, 0>>]


-----------------------------------------------------------------------------
(* The environment: datasets and the scores of the forward-backward pass *)

\* one batch of the dataloader: batch['supervisions'], and for every segment
\* whether its transcript can be aligned to its frames at all
B_ok ==
    [sequence_idx |-> <<0, 1>>, start_frame |-> <<0, 4>>,
     num_frames |-> <<9, 17>>, text |-> <<"uno", "dos">>,
     align |-> <<TRUE, TRUE>>]

B_part ==
    [sequence_idx |-> <<0, 1>>, start_frame |-> <<0, 0>>,
     num_frames |-> <<13, 6>>, text |-> <<"tres", "cuatro">>,
     align |-> <<TRUE, FALSE>>]

B_fail ==
    [sequence_idx |-> <<0>>, start_frame |-> <<0>>,
     num_frames |-> <<5>>, text |-> <<"cinco">>,
     align |-> <<FALSE>>]

Batches == {B_ok, B_part, B_fail}

DefaultBatch == B_ok

RECURSIVE SeqsUpTo(_, _)
SeqsUpTo(S, n) ==
    IF n = 0 THEN {<<>>}
    ELSE LET shorter == SeqsUpTo(S, n - 1)
         IN  shorter \cup {Append(h, b) : h \in {x \in shorter : Len(x) = n - 1},
                                          b \in S}

\* a dataloader: len batches, the first ones those of head, the others
\* DefaultBatch
Loader(n, h) == [len |-> n, head |-> h]

BatchAt(dl, i) ==
    IF i < Len(dl.head) THEN dl.head[i + 1] ELSE DefaultBatch

\* the lengths around the first validation point, and the longest one, with
\* MaxPasses validation passes
LongLens ==
    {ValidInterval, ValidInterval + 1, MaxPasses * ValidInterval + 1}

TrainLoaders ==
    {Loader(Len(h), h) : h \in SeqsUpTo(Batches, MaxSmall)}
        \cup {Loader(n, <<>>) : n \in LongLens}

\* the (train, dev) cut sets: every training set with a dev set that has
\* successful segments, and one with a dev set that has none
Datasets ==
    {<<t, Loader(2, <<B_part, B_ok>>)>> : t \in TrainLoaders}
        \cup {<<Loader(ValidInterval + 1, <<>>), Loader(1, <<B_fail>>)>>}

\* the loss levels the network may have in an epoch
LossLevels == {1, 2}

\* the loss level during a validation pass: it differs from pass to pass
\* within an epoch, the network having been trained in between
ValidLevel(q, passes) == q + passes

\* target_graph.get_tot_scores(): for the sorted segments, -infinity where no
\* alignment exists and a finite log-probability elsewhere
TotScores(batch, indices, q) ==
    [i \in 1..Len(indices) |->
        IF batch.align[indices[i]]
        THEN Fin(-(q * (batch.num_frames[indices[i]] \div subsampling_factor)
                   + 1))
        ELSE NegInf]

-----------------------------------------------------------------------------
(* Files and tensorboard *)

BestModelPath == "exp-lstm-adam-ctc/best_model.pt"
BestEpochInfo == "exp-lstm-adam-ctc/best-epoch-info"
EpochModelPath(e) == "exp-lstm-adam-ctc/epoch-" \o Format(e) \o ".pt"
EpochInfo(e) == "exp-lstm-adam-ctc/epoch-" \o Format(e) \o "-info"
LinvPath == "data/lang/Linv.pt"

NoFiles == <<>>

write(fs, name, content) == (name :> content) @@ fs

Checkpoint(with_optimizer, e, o, vo, gbi) ==
    [kind |-> "checkpoint", optimizer |-> with_optimizer, epoch |-> e,
     objf |-> o, valid_objf |-> vo, global_batch_idx_train |-> gbi]

TrainingInfo(path, e, o, bo, vo, bvo, be) ==
    [kind |-> "info", model_path |-> path, current_epoch |-> e, objf |-> o,
     best_objf |-> bo, valid_objf |-> vo, best_valid_objf |-> bvo,
     best_epoch |-> be]

Tags == {"learning_rate", "train/global_average_objf",
         "train/current_batch_average_objf",
         "train/global_valid_average_objf"}

add_scalar(w, tag, step) ==
    [w EXCEPT ![tag] = [n |-> w[tag].n + 1, step |-> step]]

-----------------------------------------------------------------------------
(* main, up to the epoch loop *)

Init ==
    /\ pc = "start"
    /\ built = {}
    /\ logged = {}
    /\ exit_arg = "none"
    /\ train_dl = Loader(0, <<>>)
    /\ valid_dl = Loader(0, <<>>)
    /\ epoch = start_epoch
    /\ quality = 1
    /\ batch_idx = 0
    /\ total_objf = 0 /\ total_frames = 0 /\ total_all_frames = 0
    /\ valid_average_objf = PosInf
    /\ batch_log = EmptyBag
    /\ valid_idx = 0
    /\ total_valid_objf = 0 /\ total_valid_frames = 0
    /\ total_valid_all_frames = 0
    /\ valid_log = EmptyBag
    /\ valid_after = {}
    /\ gbi_local = 0
    /\ global_batch_idx_train = 0
    /\ objf = PosInf /\ valid_objf = PosInf
    /\ best_objf = PosInf /\ best_valid_objf = PosInf
    /\ best_epoch = start_epoch
    /\ model_mode = "none"
    /\ last_call = NoCall
    /\ files \in {NoFiles, write(NoFiles, LinvPath, [kind |-> "L_inv"])}
    /\ writes = <<>>
    /\ tb = [t \in Tags |-> [n |-> 0, step |-> -1]]

epoch_vars == <<quality, batch_idx, total_objf, total_frames,
                total_all_frames, valid_average_objf, batch_log, valid_after,
                gbi_local>>

valid_vars == <<valid_idx, total_valid_objf, total_valid_frames,
                total_valid_all_frames, valid_log>>

best_vars == <<best_objf, best_valid_objf, best_epoch>>

\* lines 223-235
LoadSymbols ==
    /\ pc = "start"
    /\ built' = built \cup {"tb_writer", "phone_symbol_table",
                            "word_symbol_table"}
    /\ pc' = "symbols_loaded"
    /\ UNCHANGED <<logged, exit_arg, train_dl, valid_dl, epoch, epoch_vars,
                   valid_vars, global_batch_idx_train, objf, valid_objf,
                   best_vars, model_mode, last_call, files, writes, tb>>

\* lines 237-251
BuildGraphCompiler ==
    /\ pc = "symbols_loaded"
    /\ files' = IF LinvPath \in DOMAIN files THEN files
                ELSE write(files, LinvPath, [kind |-> "L_inv"])
    /\ built' = built \cup {"L_inv", "graph_compiler"}
    /\ pc' = "compiler_built"
    /\ UNCHANGED <<logged, exit_arg, train_dl, valid_dl, epoch, epoch_vars,
                   valid_vars, global_batch_idx_train, objf, valid_objf,
                   best_vars, model_mode, last_call, writes, tb>>

\* lines 253-286
BuildData ==
    /\ pc = "compiler_built"
    /\ \E d \in Datasets : train_dl' = d[1] /\ valid_dl' = d[2]
    /\ built' = built \cup {"train_dl", "valid_dl"}
    /\ pc' = "data_built"
    /\ UNCHANGED <<logged, exit_arg, epoch, epoch_vars, valid_vars,
                   global_batch_idx_train, objf, valid_objf, best_vars,
                   model_mode, last_call, files, writes, tb>>

\* the check of line 288 moved below the creation of model and optimizer
NoGpuExitAfterModel ==
    /\ pc = "data_built"
    /\ logged' = logged \cup {"No GPU detected!"}
    /\ exit_arg' = "-1"
    /\ built' = built \cup {"model", "optimizer"}
    /\ pc' = "exited"
    /\ UNCHANGED <<train_dl, valid_dl, epoch, epoch_vars, valid_vars,
                   global_batch_idx_train, objf, valid_objf, best_vars,
                   model_mode, last_call, files, writes, tb>>

\* lines 288-290, torch.cuda.is_available() false
NoGpuExit ==
    /\ pc = "data_built"
    /\ logged' = logged \cup {"No GPU detected!"}
    /\ exit_arg' = "-1"
    /\ pc' = "exited"
    /\ UNCHANGED <<built, train_dl, valid_dl, epoch, epoch_vars, valid_vars,
                   global_batch_idx_train, objf, valid_objf, best_vars,
                   model_mode, last_call, files, writes, tb>>

\* lines 288-321 without the optimizer of lines 303-306
BuildModelWithoutOptimizer ==
    /\ pc = "data_built"
    /\ built' = built \cup {"model"}
    /\ model_mode' = "train"
    /\ best_epoch' = start_epoch
    /\ best_objf' = PosInf
    /\ best_valid_objf' = PosInf
    /\ global_batch_idx_train' = 0
    /\ epoch' = start_epoch
    /\ pc' = "loop"
    /\ UNCHANGED <<logged, exit_arg, train_dl, valid_dl, epoch_vars,
                   valid_vars, objf, valid_objf, last_call, files, writes, tb>>

\* lines 288-321, torch.cuda.is_available() true
BuildModel ==
    /\ pc = "data_built"
    /\ built' = built \cup {"model", "optimizer"}
    /\ model_mode' = "train"
    /\ best_epoch' = start_epoch
    /\ IF start_epoch > 0
       THEN LET ckpt == files[EpochModelPath(start_epoch - 1)]
            IN  /\ best_objf' = ckpt.objf
                /\ best_valid_objf' = ckpt.valid_objf
                /\ global_batch_idx_train' = ckpt.global_batch_idx_train
       ELSE /\ best_objf' = PosInf
            /\ best_valid_objf' = PosInf
            /\ global_batch_idx_train' = 0
    /\ epoch' = start_epoch
    /\ pc' = "loop"
    /\ UNCHANGED <<logged, exit_arg, train_dl, valid_dl, epoch_vars,
                   valid_vars, objf, valid_objf, last_call, files, writes, tb>>

-----------------------------------------------------------------------------
(* train_one_epoch and get_validation_objf *)

setup_vars == <<built, logged, train_dl, valid_dl>>

main_vars == <<epoch, global_batch_idx_train, objf, valid_objf, best_vars,
               files, writes>>

\* lines 323-343 and 160-165: the loop of main enters train_one_epoch
EpochBegin ==
    /\ pc = "loop"
    /\ epoch < num_epochs
    /\ quality' \in LossLevels
    /\ tb' = add_scalar(tb, "learning_rate", epoch)
    /\ total_objf' = 0 /\ total_frames' = 0 /\ total_all_frames' = 0
    /\ valid_average_objf' = PosInf
    /\ gbi_local' = global_batch_idx_train
    /\ model_mode' = "train"
    /\ batch_idx' = 0
    /\ batch_log' = EmptyBag
    /\ valid_after' = {}
    /\ pc' = "train"
    /\ UNCHANGED <<setup_vars, exit_arg, main_vars, valid_vars, last_call>>

next_global_batch_idx_frozen(g) == g

next_global_batch_idx(g) == g + 1

accumulate_all_frames(total, ans) == total + ans[3]

accumulate_frames(total, ans) == total + ans[2]

validation_due_from_zero(idx) == idx % ValidInterval = 0

\* line 201
validation_due(idx) == idx > 0 /\ idx % ValidInterval = 0

\* lines 166-206 and 135-139: one training batch; when a validation pass is
\* due, get_validation_objf is entered
TrainBatch ==
    /\ pc = "train"
    /\ batch_idx < train_dl.len
    /\ LET batch == BatchAt(train_dl, batch_idx)
       IN  \E indices \in Indices(batch) :
           LET call == get_objf(batch, indices,
                                TotScores(batch, indices, quality),
                                TRUE, model_mode)
               o == total_objf + call.ans[1]
               f == accumulate_frames(total_frames, call.ans)
               a == total_all_frames + call.ans[3]
               g == next_global_batch_idx(gbi_local)
               logs == batch_idx % LogInterval = 0
               \* total_objf / total_frames and
               \* 100.0 * curr_batch_frames / curr_batch_all_frames
               zero_division == logs /\ (f = 0 \/ call.ans[3] = 0)
           IN  /\ gbi_local' = g
               /\ last_call' = call
               /\ total_objf' = o
               /\ total_frames' = f
               /\ total_all_frames' = a
               /\ batch_log' = batch_log (+) SetToBag({call.ans})
               /\ IF zero_division
                  THEN /\ pc' = "crashed"
                       /\ exit_arg' = "ZeroDivisionError"
                       /\ UNCHANGED <<tb, batch_idx, model_mode, valid_vars>>
                  ELSE /\ exit_arg' = exit_arg
                       /\ tb' = IF logs
                                THEN add_scalar(
                                         add_scalar(
                                             tb, "train/global_average_objf",
                                             g),
                                         "train/current_batch_average_objf", g)
                                ELSE tb
                       /\ IF validation_due(batch_idx)
                          THEN /\ pc' = "valid"
                               /\ total_valid_objf' = 0
                               /\ total_valid_frames' = 0
                               /\ total_valid_all_frames' = 0
                               /\ valid_idx' = 0
                               /\ valid_log' = EmptyBag
                               /\ model_mode' = "eval"
                               /\ batch_idx' = batch_idx
                          ELSE /\ pc' = "train"
                               /\ batch_idx' = batch_idx + 1
                               /\ UNCHANGED <<model_mode, valid_vars>>
    /\ UNCHANGED <<setup_vars, main_vars, quality, valid_average_objf,
                   valid_after>>

\* line 143: get_objf(batch, model, device, graph_compiler, False)
valid_training == FALSE

\* lines 141-146: one validation batch
ValidBatch ==
    /\ pc = "valid"
    /\ valid_idx < valid_dl.len
    /\ LET batch == BatchAt(valid_dl, valid_idx)
       IN  \E indices \in Indices(batch) :
           LET level == ValidLevel(quality, Cardinality(valid_after))
               call == get_objf(batch, indices,
                                TotScores(batch, indices, level),
                                valid_training, model_mode)
           IN  /\ last_call' = call
               /\ total_valid_objf' = total_valid_objf + call.ans[1]
               /\ total_valid_frames' = total_valid_frames + call.ans[2]
               /\ total_valid_all_frames' =
                      total_valid_all_frames + call.ans[3]
               /\ valid_log' = valid_log (+) SetToBag({call.ans})
    /\ valid_idx' = valid_idx + 1
    /\ UNCHANGED <<pc, setup_vars, exit_arg, main_vars, epoch_vars,
                   model_mode, tb>>

mode_after_validation_eval == "eval"

\* line 208: model.train()
mode_after_validation == "train"

\* lines 148 and 207-218: the pass returns, the batch ends
ValidReturn ==
    /\ pc = "valid"
    /\ valid_idx = valid_dl.len
    /\ IF total_valid_frames = 0
       THEN /\ pc' = "crashed"
            /\ exit_arg' = "ZeroDivisionError"
            /\ UNCHANGED <<valid_average_objf, model_mode, tb, batch_idx,
                           valid_after>>
       ELSE /\ valid_average_objf' = Div(total_valid_objf, total_valid_frames)
            /\ model_mode' = mode_after_validation
            /\ tb' = add_scalar(tb, "train/global_valid_average_objf",
                                gbi_local)
            /\ valid_after' = valid_after \cup {batch_idx}
            /\ batch_idx' = batch_idx + 1
            /\ pc' = "train"
            /\ exit_arg' = exit_arg
    /\ UNCHANGED <<setup_vars, main_vars, quality, total_objf, total_frames,
                   total_all_frames, batch_log, gbi_local, valid_vars,
                   last_call>>

\* line 219 and 334: the dataloader is exhausted, train_one_epoch returns
EpochReturn ==
    /\ pc = "train"
    /\ batch_idx = train_dl.len
    /\ IF total_frames = 0
       THEN /\ pc' = "crashed"
            /\ exit_arg' = "ZeroDivisionError"
            /\ UNCHANGED <<objf, valid_objf, global_batch_idx_train>>
       ELSE /\ objf' = Div(total_objf, total_frames)
            /\ valid_objf' = valid_average_objf
            /\ global_batch_idx_train' = gbi_local
            /\ pc' = "returned"
            /\ exit_arg' = exit_arg
    /\ UNCHANGED <<setup_vars, epoch, best_vars, files, writes, epoch_vars,
                   valid_vars, model_mode, last_call, tb>>

-----------------------------------------------------------------------------
(* main, after train_one_epoch *)

improves_or_equal(v, best) == ~Less(best, v)

\* line 345
improves(v, best) == Less(v, best)

\* lines 345-366
UpdateBest ==
    /\ pc = "returned"
    /\ IF improves(valid_objf, best_valid_objf)
       THEN /\ best_valid_objf' = valid_objf
            /\ best_objf' = objf
            /\ best_epoch' = epoch
            /\ files' = write(
                   write(files, BestModelPath,
                         Checkpoint(FALSE, epoch, objf, valid_objf,
                                    global_batch_idx_train)),
                   BestEpochInfo,
                   TrainingInfo(BestModelPath, epoch, objf, objf, valid_objf,
                                valid_objf, epoch))
            /\ writes' = writes \o <<BestModelPath, BestEpochInfo>>
       ELSE UNCHANGED <<best_vars, files, writes>>
    /\ pc' = "best_checked"
    /\ UNCHANGED <<setup_vars, exit_arg, epoch, global_batch_idx_train, objf,
                   valid_objf, epoch_vars, valid_vars, model_mode, last_call,
                   tb>>

\* lines 368-378 made part of the branch of line 345
SaveCheckpointWhenBest ==
    /\ pc = "best_checked"
    /\ IF best_epoch = epoch
       THEN /\ files' = write(files, EpochModelPath(epoch),
                              Checkpoint(TRUE, epoch, objf, valid_objf,
                                         global_batch_idx_train))
            /\ writes' = Append(writes, EpochModelPath(epoch))
       ELSE UNCHANGED <<files, writes>>
    /\ pc' = "checkpoint_saved"
    /\ UNCHANGED <<setup_vars, exit_arg, epoch, global_batch_idx_train, objf,
                   valid_objf, best_vars, epoch_vars, valid_vars, model_mode,
                   last_call, tb>>

\* lines 368-378
SaveCheckpoint ==
    /\ pc = "best_checked"
    /\ files' = write(files, EpochModelPath(epoch),
                      Checkpoint(TRUE, epoch, objf, valid_objf,
                                 global_batch_idx_train))
    /\ writes' = Append(writes, EpochModelPath(epoch))
    /\ pc' = "checkpoint_saved"
    /\ UNCHANGED <<setup_vars, exit_arg, epoch, global_batch_idx_train, objf,
                   valid_objf, best_vars, epoch_vars, valid_vars, model_mode,
                   last_call, tb>>

\* lines 379-389, then the next iteration of line 323
SaveTrainingInfo ==
    /\ pc = "checkpoint_saved"
    /\ files' = write(files, EpochInfo(epoch),
                      TrainingInfo(EpochModelPath(epoch), epoch, objf,
                                   best_objf, valid_objf, best_valid_objf,
                                   best_epoch))
    /\ writes' = Append(writes, EpochInfo(epoch))
    /\ epoch' = epoch + 1
    /\ pc' = "loop"
    /\ UNCHANGED <<setup_vars, exit_arg, global_batch_idx_train, objf,
                   valid_objf, best_vars, epoch_vars, valid_vars, model_mode,
                   last_call, tb>>

\* line 391
Finish ==
    /\ pc = "loop"
    /\ epoch >= num_epochs
    /\ logged' = logged \cup {"Done"}
    /\ pc' = "done"
    /\ UNCHANGED <<built, exit_arg, train_dl, valid_dl, main_vars, epoch_vars,
                   valid_vars, model_mode, last_call, tb>>

Next ==
    \/ LoadSymbols
    \/ BuildGraphCompiler
    \/ BuildData
    \/ NoGpuExit
    \/ BuildModel
    \/ EpochBegin
    \/ TrainBatch
    \/ ValidBatch
    \/ ValidReturn
    \/ EpochReturn
    \/ UpdateBest
    \/ SaveCheckpoint
    \/ SaveTrainingInfo
    \/ Finish

Spec == Init /\ [][Next]_vars

-----------------------------------------------------------------------------
(* get_objf on its own: one call on any batch of at most MaxSegs segments,  *)
(* with any scores from the forward-backward pass                           *)

FrameChoices == {3, 8, 9, 17}

ScoreChoices == {NegInf, Fin(-1), Fin(-3)}

TextOf == <<"uno", "dos", "tres", "cuatro", "cinco", "seis">>

FreeBatches ==
    UNION {{[sequence_idx |-> [i \in 1..n |-> i - 1],
             start_frame |-> [i \in 1..n |-> 4 * (i % 2)],
             num_frames |-> nf,
             text |-> [i \in 1..n |-> TextOf[i]],
             align |-> [i \in 1..n |-> TRUE]] :
               nf \in [1..n -> FrameChoices]} : n \in 0..MaxSegs}

InitObjf ==
    /\ pc = "objf_ready"
    /\ built = {"tb_writer", "phone_symbol_table", "word_symbol_table",
                "L_inv", "graph_compiler", "train_dl", "valid_dl", "model",
                "optimizer"}
    /\ logged = {}
    /\ exit_arg = "none"
    /\ train_dl = Loader(0, <<>>)
    /\ valid_dl = Loader(0, <<>>)
    /\ epoch = start_epoch
    /\ quality = 1
    /\ batch_idx = 0
    /\ total_objf = 0 /\ total_frames = 0 /\ total_all_frames = 0
    /\ valid_average_objf = PosInf
    /\ batch_log = EmptyBag
    /\ valid_idx = 0
    /\ total_valid_objf = 0 /\ total_valid_frames = 0
    /\ total_valid_all_frames = 0
    /\ valid_log = EmptyBag
    /\ valid_after = {}
    /\ gbi_local = 0
    /\ global_batch_idx_train = 0
    /\ objf = PosInf /\ valid_objf = PosInf
    /\ best_objf = PosInf /\ best_valid_objf = PosInf
    /\ best_epoch = start_epoch
    /\ model_mode \in {"train", "eval"}
    /\ last_call = NoCall
    /\ files = NoFiles
    /\ writes = <<>>
    /\ tb = [t \in Tags |-> [n |-> 0, step |-> -1]]

\* lines 66-129 with training = True
ObjfTraining ==
    /\ pc = "objf_ready"
    /\ model_mode = "train"
    /\ \E batch \in FreeBatches :
       \E indices \in Indices(batch) :
       \E tot_scores \in [1..Len(indices) -> ScoreChoices] :
           last_call' = get_objf(batch, indices, tot_scores, TRUE, model_mode)
    /\ pc' = "objf_done"
    /\ UNCHANGED <<setup_vars, exit_arg, main_vars, epoch_vars, valid_vars,
                   model_mode, tb>>

\* lines 66-129 with training = False
ObjfValidation ==
    /\ pc = "objf_ready"
    /\ model_mode = "eval"
    /\ \E batch \in FreeBatches :
       \E indices \in Indices(batch) :
       \E tot_scores \in [1..Len(indices) -> ScoreChoices] :
           last_call' = get_objf(batch, indices, tot_scores, FALSE, model_mode)
    /\ pc' = "objf_done"
    /\ UNCHANGED <<setup_vars, exit_arg, main_vars, epoch_vars, valid_vars,
                   model_mode, tb>>

NextObjf == ObjfTraining \/ ObjfValidation

SpecObjf == InitObjf /\ [][NextObjf]_vars

-----------------------------------------------------------------------------
(* Sums over sets, for the statements below *)

RECURSIVE SetSum(_, _)
SetSum(f, S) ==
    IF S = {} THEN 0
    ELSE LET x == CHOOSE y \in S : TRUE
         IN  f[x] + SetSum(f, S \ {x})

\* Sum over a bag of triples of component k
RECURSIVE BagSum(_, _)
BagSum(B, k) ==
    IF DOMAIN B = {} THEN 0
    ELSE LET x == CHOOSE y \in DOMAIN B : TRUE
         IN  x[k] * B[x] + BagSum([y \in DOMAIN B \ {x} |-> B[y]], k)

-----------------------------------------------------------------------------
(* C1 *)

Successful(call) ==
    {i \in 1..Len(call.tot_scores) : ~call.tot_scores[i].neg_inf}

\* C1: for every call, the triple get_tot_objf_and_num_frames returns is
\* (the sum of the scores of exactly the segments whose score is not
\* -infinity, the sum of the frames of those same segments, the sum of the
\* frames of all segments).
C1_TotalsOverSuccessfulSegments ==
    last_call.kind # "none" =>
        LET n == Len(last_call.tot_scores)
            frames == [i \in 1..n |-> last_call.supervision_segments[i][3]]
            scores == [i \in 1..n |-> last_call.tot_scores[i].v]
        IN  last_call.tot = <<SetSum(scores, Successful(last_call)),
                              SetSum(frames, Successful(last_call)),
                              SetSum(frames, 1..n)>>

\* a call with a failed segment that has frames, between two successful ones
C1_Witness ==
    /\ pc = "objf_done"
    /\ Len(last_call.tot_scores) = 3
    /\ Successful(last_call) = {1, 3}
    /\ last_call.supervision_segments[2][3] > 0
    /\ last_call.tot[2] > 0
    /\ last_call.tot[2] < last_call.tot[3]

-----------------------------------------------------------------------------
(* C10 *)

\* C10: in every get_objf call the supervision segments handed to the dense
\* FSA are the batch's segments (with start and duration floor-divided by
\* the subsampling factor) permuted into non-increasing subsampled duration,
\* and the texts handed to the graph compiler are the batch's texts under
\* the same permutation: nothing is dropped or duplicated and the i-th text
\* belongs to the i-th segment.
C10_SegmentsAndTextsSortedTogether ==
    last_call.kind # "none" =>
        LET b == last_call.batch
            n == Len(b.num_frames)
            segs == last_call.supervision_segments
        IN  /\ Len(segs) = n
            /\ Len(last_call.texts) = n
            /\ \A i \in 1..n : \A j \in 1..n :
                   i < j => segs[i][3] >= segs[j][3]
            /\ \E p \in Perms(n) : \A i \in 1..n :
                   /\ segs[i] = <<b.sequence_idx[p[i]],
                                  b.start_frame[p[i]] \div subsampling_factor,
                                  b.num_frames[p[i]] \div subsampling_factor>>
                   /\ last_call.texts[i] = b.text[p[i]]

\* a call whose batch is not sorted already and has two segments of equal
\* subsampled duration
C10_Witness ==
    /\ pc = "objf_done"
    /\ Len(last_call.indices) = 3
    /\ last_call.indices # <<1, 2, 3>>
    /\ last_call.supervision_segments[1][3]
           > last_call.supervision_segments[2][3]
    /\ last_call.supervision_segments[2][3]
           = last_call.supervision_segments[3][3]
    /\ last_call.texts # last_call.batch.text

-----------------------------------------------------------------------------
(* C2 *)

IsEpochFile(name) == name # BestModelPath /\ name # BestEpochInfo

\* the checkpoint and info file of every epoch from start_epoch up to but not
\* including e, in the order main has to write them
RECURSIVE EpochFilesBefore(_)
EpochFilesBefore(e) ==
    IF e <= start_epoch THEN <<>>
    ELSE EpochFilesBefore(e - 1) \o <<EpochModelPath(e - 1), EpochInfo(e - 1)>>

\* C2: the per-epoch files are written in epoch order, checkpoint then info
\* file, each exactly once: while epoch e is trained or its best model is
\* decided, exactly the files of the epochs before e exist; the checkpoint of
\* e is written only after train_one_epoch has returned, the info file after
\* the checkpoint, and only then does the next epoch start, whether or not e
\* improved the best validation objective.  'Done' is logged only when the
\* files of all epochs up to num_epochs - 1 have been written.
C2_EveryEpochSavedOnceInOrder ==
    /\ SelectSeq(writes, IsEpochFile)
         = EpochFilesBefore(epoch)
             \o (IF pc = "checkpoint_saved" THEN <<EpochModelPath(epoch)>>
                 ELSE <<>>)
    /\ \A e \in start_epoch..(epoch - 1) :
          /\ files[EpochModelPath(e)].kind = "checkpoint"
          /\ files[EpochModelPath(e)].epoch = e
          /\ files[EpochInfo(e)].kind = "info"
          /\ files[EpochInfo(e)].current_epoch = e
    /\ "Done" \in logged =>
          /\ epoch = num_epochs
          /\ SelectSeq(writes, IsEpochFile) = EpochFilesBefore(num_epochs)
    /\ pc = "done" => "Done" \in logged

\* the run is over, and some epochs improved the best validation objective
\* while others did not
C2_Witness ==
    /\ pc = "done"
    /\ "Done" \in logged
    /\ Len(SelectSeq(writes, LAMBDA name : name = BestModelPath)) \in 1..3
    /\ Len(writes) >= 2 * num_epochs + 2

-----------------------------------------------------------------------------
(* C3 *)

Phase ==
    CASE pc = "start" -> 0
      [] pc = "symbols_loaded" -> 1
      [] pc = "compiler_built" -> 2
      [] pc \in {"data_built", "exited"} -> 3
      [] pc = "loop" -> 4
      [] pc \in {"train", "valid", "crashed"} -> 5
      [] pc \in {"returned", "best_checked", "checkpoint_saved"} -> 6
      [] pc = "done" -> 7
      [] OTHER -> -1

BuiltInPhase(k) ==
    (IF k >= 1 THEN {"tb_writer", "phone_symbol_table", "word_symbol_table"}
     ELSE {})
    \cup (IF k >= 2 THEN {"L_inv", "graph_compiler"} ELSE {})
    \cup (IF k >= 3 THEN {"train_dl", "valid_dl"} ELSE {})
    \cup (IF k >= 4 THEN {"model", "optimizer"} ELSE {})

PhaseStep ==
    LET a == Phase
        b == Phase'
    IN  \/ b = a
        \/ a < 6 /\ b = a + 1
        \/ a = 6 /\ b = 4      \* the next iteration of the epoch loop
        \/ a = 4 /\ b = 7      \* the loop is over

\* C3: main goes through its phases in one fixed order: symbol tables, graph
\* compiler, datasets and dataloaders, model and optimizer, then for every
\* epoch its batches followed by its checkpointing; no phase is skipped or
\* entered again from a later one, every phase has exactly the objects of the
\* phases before it, and a training batch is processed only when the model
\* and the optimizer exist.
C3_PhasesInFixedOrder ==
    /\ [](/\ Phase >= 0
          /\ built = BuiltInPhase(Phase)
          /\ last_call.kind # "none" =>
                 {"graph_compiler", "train_dl", "valid_dl", "model",
                  "optimizer"} \subseteq built)
    /\ [][PhaseStep]_vars

\* a training batch of the second epoch has been processed
C3_Witness ==
    /\ pc = "train"
    /\ epoch = start_epoch + 1
    /\ last_call.kind = "train"
    /\ EpochInfo(start_epoch) \in DOMAIN files

-----------------------------------------------------------------------------
(* C4 *)

InEpoch == pc \in {"train", "valid", "returned", "crashed"}

\* C4: at the beginning of every epoch the running totals are 0; after any
\* number of batches of the epoch they are the sums, over the batches of this
\* epoch alone, of the objf, the ok-frames and the all-frames get_objf
\* returned; and the training objective an epoch with a successful frame
\* returns is total_objf / total_frames over all its batches.
C4_TotalsAreSumsOverTheEpoch ==
    /\ InEpoch =>
          /\ total_objf = BagSum(batch_log, 1)
          /\ total_frames = BagSum(batch_log, 2)
          /\ total_all_frames = BagSum(batch_log, 3)
          /\ pc = "train" => BagCardinality(batch_log) = batch_idx
          /\ pc = "valid" => BagCardinality(batch_log) = batch_idx + 1
          /\ batch_idx = 0 /\ pc = "train" =>
                 total_objf = 0 /\ total_frames = 0 /\ total_all_frames = 0
    /\ pc = "returned" =>
          /\ BagCardinality(batch_log) = train_dl.len
          /\ BagSum(batch_log, 2) > 0
          /\ ~objf.inf
          /\ objf.den > 0
          /\ objf.num * BagSum(batch_log, 2) = BagSum(batch_log, 1) * objf.den

\* a later epoch has returned, one of its batches having had no successful
\* segment and another one only some
C4_Witness ==
    /\ pc = "returned"
    /\ epoch > start_epoch
    /\ \E x \in DOMAIN batch_log : x[2] = 0 /\ x[3] > 0
    /\ \E x \in DOMAIN batch_log : x[2] > 0 /\ x[2] < x[3]
    /\ total_frames < total_all_frames

-----------------------------------------------------------------------------
(* C5 *)

\* what the info file of a completed epoch recorded
ValidObjfOf(e) == files[EpochInfo(e)].valid_objf
ObjfOf(e) == files[EpochInfo(e)].objf

\* the epochs start_epoch..epoch-1 are complete and the next one has not
\* begun
BetweenEpochs == pc \in {"loop", "done"}

Completed == start_epoch..(epoch - 1)

\* the minimum of +infinity and the validation objectives of start_epoch..e
RECURSIVE MinValidUpTo(_)
MinValidUpTo(e) ==
    IF e < start_epoch THEN PosInf
    ELSE LET m == MinValidUpTo(e - 1)
         IN  IF Less(ValidObjfOf(e), m) THEN ValidObjfOf(e) ELSE m

Attaining(e) == {d \in start_epoch..e : ValidObjfOf(d) = MinValidUpTo(e)}

SomeEpochBelowInf(e) == \E d \in start_epoch..e : ~ValidObjfOf(d).inf

EarliestBest(e) ==
    IF SomeEpochBelowInf(e)
    THEN CHOOSE d \in Attaining(e) : \A c \in Attaining(e) : d <= c
    ELSE start_epoch

\* whether the two best files were written in epoch e: in the order of the
\* writes, directly before the checkpoint of e
BestWrittenIn(e) ==
    \E k \in 3..Len(writes) :
        /\ writes[k] = EpochModelPath(e)
        /\ writes[k - 1] = BestEpochInfo
        /\ writes[k - 2] = BestModelPath

BestNotWrittenIn(e) ==
    \E k \in 1..Len(writes) :
        /\ writes[k] = EpochModelPath(e)
        /\ k > 1 => IsEpochFile(writes[k - 1])

BestFilesWrittenIffLower ==
    \A e \in Completed :
        IF Less(ValidObjfOf(e), MinValidUpTo(e - 1))
        THEN BestWrittenIn(e)
        ELSE BestNotWrittenIn(e)

BestValidAndEpochTracked ==
    epoch > start_epoch =>
        /\ best_valid_objf = MinValidUpTo(epoch - 1)
        /\ best_epoch = EarliestBest(epoch - 1)

\* C5 as stated: after every completed epoch e, best_valid_objf is the
\* minimum of +infinity and the validation objectives of start_epoch..e,
\* best_epoch is the earliest epoch attaining it (start_epoch if none was
\* below +infinity), best_objf is the training objective of best_epoch, and
\* the best files were written in an epoch iff its validation objective was
\* strictly lower than the best before it.
C5_AsStated ==
    BetweenEpochs =>
        /\ BestValidAndEpochTracked
        /\ epoch > start_epoch => best_objf = ObjfOf(best_epoch)
        /\ BestFilesWrittenIffLower

\* C5, amended: as stated, except that best_objf is the training objective
\* of best_epoch only once some epoch had a validation objective below
\* +infinity; until then best_objf is still +infinity, its initial value,
\* although best_epoch is start_epoch.
C5_BestEpochMetadata ==
    BetweenEpochs =>
        /\ BestValidAndEpochTracked
        /\ epoch > start_epoch =>
               best_objf = IF SomeEpochBelowInf(epoch - 1)
                           THEN ObjfOf(best_epoch)
                           ELSE PosInf
        /\ BestFilesWrittenIffLower

\* all epochs are complete; the best one is neither the first nor the last,
\* a later epoch tied with it, and the training objectives of the epochs
\* differ
C5_Witness ==
    /\ pc = "done"
    /\ best_epoch > start_epoch
    /\ best_epoch < num_epochs - 1
    /\ \E d \in (best_epoch + 1)..(num_epochs - 1) :
           ValidObjfOf(d) = best_valid_objf
    /\ \E d \in Completed : ObjfOf(d) # best_objf
    /\ ~best_objf.inf

-----------------------------------------------------------------------------
(* C6 *)

StepTags == {"train/global_average_objf", "train/current_batch_average_objf",
             "train/global_valid_average_objf"}

-----------------------------------------------------------------------------
(* C7 *)

\* C7: when main exits for want of a GPU it has logged the error and called
\* sys.exit(-1); the datasets and dataloaders exist, the model and the
\* optimizer do not; no batch has been processed, no checkpoint or info file
\* has been written, and nothing more happens.
C7_NoGpuExit ==
    /\ pc = "exited" =>
          /\ exit_arg = "-1"
          /\ "No GPU detected!" \in logged
          /\ {"train_dl", "valid_dl"} \subseteq built
          /\ "model" \notin built
          /\ "optimizer" \notin built
          /\ last_call = NoCall
          /\ gbi_local = 0
          /\ writes = <<>>
          /\ DOMAIN files \subseteq {LinvPath}
          /\ ~ENABLED Next
    /\ exit_arg = "-1" => pc = "exited"
    /\ "No GPU detected!" \in logged => pc = "exited"

C7_Witness ==
    /\ pc = "exited"
    /\ train_dl.len > ValidInterval
    /\ LinvPath \in DOMAIN files

-----------------------------------------------------------------------------
(* C8 *)

PositiveMultiplesBelow(n) ==
    {i \in 1..(n - 1) : i % ValidInterval = 0}

\* C8: inside an epoch the validation passes so far are exactly those after
\* the training batches whose index is a positive multiple of 200; the
\* validation objective train_one_epoch returns is total_valid_objf /
\* total_valid_frames of the last pass; with at most 200 training batches
\* there was no pass and it is +infinity, and then the epoch neither changes
\* the best-epoch metadata nor writes the best files.
C8_ValidationEvery200Batches ==
    /\ [](/\ pc = "train" =>
                 valid_after = PositiveMultiplesBelow(batch_idx)
          /\ pc = "valid" =>
                 /\ batch_idx > 0
                 /\ batch_idx % ValidInterval = 0
                 /\ valid_after = PositiveMultiplesBelow(batch_idx)
          /\ pc = "returned" =>
                 /\ valid_after = PositiveMultiplesBelow(train_dl.len)
                 /\ IF train_dl.len <= ValidInterval
                    THEN valid_after = {} /\ valid_objf = PosInf
                    ELSE /\ ~valid_objf.inf
                         /\ total_valid_objf = BagSum(valid_log, 1)
                         /\ total_valid_frames = BagSum(valid_log, 2)
                         /\ BagCardinality(valid_log) = valid_dl.len
                         /\ valid_objf.num * total_valid_frames
                                = total_valid_objf * valid_objf.den)
    /\ [][pc = "returned" /\ train_dl.len <= ValidInterval =>
              UNCHANGED <<best_vars, files, writes>>]_vars

\* an epoch with two validation passes of different averages has returned
C8_Witness ==
    /\ pc = "returned"
    /\ valid_after = {ValidInterval, 2 * ValidInterval}
    /\ valid_objf = Div(total_valid_objf, total_valid_frames)
    /\ valid_objf # Div(BagSum(valid_log, 1) - BagSum(valid_log, 2),
                        BagSum(valid_log, 2))

-----------------------------------------------------------------------------
(* C9 *)

\* C9: a training batch goes through get_objf with the model in train mode
\* and gradients on, and makes the one optimizer update zero_grad, backward,
\* clip_grad_value_, step; a validation batch goes through it in eval mode
\* under no_grad with no backward pass and no optimizer step; and whenever
\* the next training batch is awaited, also after a validation pass, the
\* model is in train mode.
C9_ModeFollowsBatchKind ==
    /\ last_call.kind = "train" =>
          /\ last_call.mode = "train"
          /\ ~last_call.no_grad
          /\ last_call.ops
               = <<"zero_grad", "backward", "clip_grad_value_", "step">>
    /\ last_call.kind = "valid" =>
          /\ last_call.mode = "eval"
          /\ last_call.no_grad
          /\ last_call.ops = <<>>
    /\ pc = "train" => model_mode = "train"
    /\ pc = "valid" => model_mode = "eval"
    /\ pc = "valid" /\ valid_idx > 0 => last_call.kind = "valid"

\* a training batch has been processed after a validation pass
C9_Witness ==
    /\ pc = "train"
    /\ valid_after # {}
    /\ last_call.kind = "train"
    /\ batch_idx > ValidInterval + 1

=============================================================================
